---- MODULE Spec2Model ----
(***************************************************************************)
(* A model of sleuth: the source-injection engine (sleuth/inject.py) and   *)
(* the scope resolver and patcher (sleuth/wrap.py).                        *)
(***************************************************************************)
EXTENDS Integers, Sequences, FiniteSets, TLC

VARIABLES
    \* ---- sleuth/inject.py: the _Injector singleton and its last call ----
    source,         \* the lines of the target file, as enumerate(f) yields them
    actions,        \* _Injector._actions: filename -> (line -> list of actions)
    commented,      \* _Injector._commented: set of (filename, line)
    enabled,        \* _Injector._enabled
    op,             \* the operation that was called last
    arg,            \* its arguments
    modified_file,  \* the return value of inject_hooks
    fired,          \* the actions hook invoked, in order
    raised,         \* the exception that left hook ("none" when it returned)
    frame,          \* the execution frame after hook
    stdout,         \* the lines written by the actions of hook
    logged,         \* the messages the actions of hook gave to their logger
    nadds,          \* number of add calls so far
    \* ---- sleuth/wrap.py: the live objects and the resolver's results ----
    heap,           \* object -> its kind, own attributes, base class, ...
    path,           \* the return value of _search (<<>> for None)
    parent,         \* the return value of _get_parent_scope
    alias,          \* a reference captured from module.f
    trace,          \* the functions a call ran, in order
    ntaps,          \* number of tap calls so far
    \* ---- _search, statement by statement ----
    pc,             \* "idle", "pass" (inside a pass) or "done"
    cap,            \* the limit argument of _search
    passLimit,      \* i, the depth limit of the running pass
    stack,          \* the search_helper calls in their for loop: node, attrs left
    spath,          \* path, the list the calls share
    sseen,          \* seen, the set the calls share
    result,         \* the return value of _search (<<>> for None)
    \* ---- sleuth/__main__.py: one call of _run ----
    rpc,            \* "idle", "config", "target" or "done"
    nconfig,        \* number of statements of the config script executed
    ip,             \* position in the rewritten text of the next statement
    globals_,       \* the bindings of __main__ the target runs in
    events,         \* what has run so far, in order
    \* ---- sleuth/wrap.py: one wrapped function and its calls ----
    wrapper,        \* the wrapper a decorator returned (its closure)
    call,           \* the arguments of the last call of the wrapper
    outcome,        \* what that call gave its caller: a value or an exception
    ctrace,         \* what ran during that call, in order
    nCalls,         \* logCalls: the counter of each wrapped instance
    cstack,         \* logCalls: the wrapper calls under way, innermost last
    clog,           \* logCalls: the messages given to the logger, in order
    \* ---- sleuth/inject.py: the Injector contexts of the running code ----
    nopen           \* number of `with Injector()` blocks entered and not left

injVars == <<source, actions, commented, enabled, modified_file,
             fired, frame, stdout, logged, nadds>>

scopeVars == <<heap, path, parent, alias, trace, ntaps>>

stepVars == <<pc, cap, passLimit, stack, spath, sseen, result>>

runVars == <<rpc, nconfig, ip, globals_, events>>

callVars == <<wrapper, call, outcome, ctrace, nCalls, cstack, clog, nopen>>

vars == <<injVars, scopeVars, stepVars, runVars, callVars, op, arg, raised>>

----------------------------------------------------------------------------
(* Bounds *)

MaxAdds == 2
MaxLineNo == 2
MaxEdges == 4
MaxLimit == 3
MaxTaps == 2
MaxConfig == 2

----------------------------------------------------------------------------
(* Values *)

Filenames == {"t.py"}
LineNos == 1..MaxLineNo

\* Line numbers a location may be registered with: 0 is below every file,
\* 1 is a line of every file, MaxLineNo + 1 is past the end of every file
RegLineNos == {0, 1, MaxLineNo + 1}

\* str.lstrip() with no argument strips these
Whitespace == {" ", "\t", "\n"}

\* Target files: each line ends with a newline, except possibly the last.
Sources ==
    { << <<"a", "\n">> >>,
      << <<" ", "a", "\n">>, <<"a">> >>,
      << <<" ", "\n">>, <<"\t", "a", "\n">> >>,
      << <<"a", " ", "\n">>, <<" ", " ", "a">> >> }

NoVars == [n \in {} |-> 0]

\* Execution frames: f_globals and f_locals of the frame that reached the hook
Frames ==
    { [f_globals |-> ("x" :> 1), f_locals |-> ("x" :> 1)],
      [f_globals |-> ("x" :> 1), f_locals |-> ("x" :> 2) @@ ("y" :> 3)] }

NoFrame == [f_globals |-> NoVars, f_locals |-> NoVars]

\* Registered actions: _Print(fmtStr) with the names its template uses, and
\* _Call(func, *args) with the names of its arguments and what func does.
PrintX == [kind |-> "Print", names |-> <<"x">>, func |-> "none"]
PrintY == [kind |-> "Print", names |-> <<"y">>, func |-> "none"]
\* _Log(fmtStr, level, logName) with a logName, and the names of its template
LogX == [kind |-> "Log", names |-> <<"x">>, func |-> "none"]
LogY == [kind |-> "Log", names |-> <<"y">>, func |-> "none"]
CallRaise == [kind |-> "Call", names |-> <<>>, func |-> "raise"]
CallNoop == [kind |-> "Call", names |-> <<>>, func |-> "noop"]
\* call_at(filename, line, func) with the injector's disable as func
CallDisable == [kind |-> "Call", names |-> <<>>, func |-> "disable"]

Actions == {PrintX, PrintY, CallRaise}

----------------------------------------------------------------------------
(* Helpers: dictionaries *)

Has2(tbl, f, l) == f \in DOMAIN tbl /\ l \in DOMAIN tbl[f]

\* The list at tbl[f][l] without creating it
Get2(tbl, f, l) == IF Has2(tbl, f, l) THEN tbl[f][l] ELSE <<>>

\* defaultdict.__missing__ of the outer dictionary: tbl[f] creates an empty
\* inner dictionary when f is not a key
Vivify(tbl, f) ==
    IF f \in DOMAIN tbl THEN tbl ELSE (f :> [l \in {} |-> <<>>]) @@ tbl

\* tbl[f][l] creates an empty list when l is not a key of tbl[f]
Vivify2(tbl, f, l) ==
    LET t1 == Vivify(tbl, f)
    IN  IF l \in DOMAIN t1[f] THEN t1
        ELSE [t1 EXCEPT ![f] = (l :> <<>>) @@ t1[f]]

\* dict.update: g.update(l)
Update(g, l) ==
    [n \in DOMAIN g \cup DOMAIN l |-> IF n \in DOMAIN l THEN l[n] ELSE g[n]]

----------------------------------------------------------------------------
(* inject_hooks *)

RECURSIVE LStrip(_)
LStrip(line) ==
    IF line # <<>> /\ Head(line) \in Whitespace THEN LStrip(Tail(line))
    ELSE line

\* The statement inject_hooks inserts, with filename and lineno formatted in
HookCall == "sleuth.inject._injector.hook("
HookStmt(filename, lineno) ==
    << "import sleuth.inject; ", HookCall, "\"", filename, "\"", ", ",
       ToString(lineno), ", ", "sleuth.inject._getframe()); " >>

\* Mutant: the hook statement is put after the text of the line
InjectLine_After(acts, comm, filename, lineno, line) ==
    LET indent_len == Len(line) - Len(LStrip(line))
        indent == SubSeq(line, 1, indent_len)
        line2 == IF <<filename, lineno>> \in comm
                 THEN indent \o <<"#", " ">> \o LStrip(line)
                 ELSE line
        injection == IF lineno \in DOMAIN acts
                     THEN indent \o HookStmt(filename, lineno)
                     ELSE <<>>
    IN  line2 \o injection

\* One iteration of the loop of inject_hooks: what is appended for one line
InjectLine(acts, comm, filename, lineno, line) ==
    LET indent_len == Len(line) - Len(LStrip(line))
        indent == SubSeq(line, 1, indent_len)
        line2 == IF <<filename, lineno>> \in comm
                 THEN indent \o <<"#", " ">> \o LStrip(line)
                 ELSE line
        injection == IF lineno \in DOMAIN acts
                     THEN indent \o HookStmt(filename, lineno)
                     ELSE <<>>
    IN  injection \o line2

\* Mutant: locations past the end of the file get their hook after it
RECURSIVE InjectFrom_Pad(_, _, _, _, _)
InjectFrom_Pad(acts, comm, filename, lineno, lines) ==
    IF lines = <<>>
    THEN IF lineno \in DOMAIN acts THEN HookStmt(filename, lineno) ELSE <<>>
    ELSE InjectLine(acts, comm, filename, lineno, Head(lines))
         \o InjectFrom_Pad(acts, comm, filename, lineno + 1, Tail(lines))

\* The loop of inject_hooks over the lines of the file, from line lineno
RECURSIVE InjectFrom(_, _, _, _, _)
InjectFrom(acts, comm, filename, lineno, lines) ==
    IF lines = <<>> THEN <<>>
    ELSE InjectLine(acts, comm, filename, lineno, Head(lines))
         \o InjectFrom(acts, comm, filename, lineno + 1, Tail(lines))

inject_hooks(filename) ==
    LET tbl == Vivify(actions, filename)
    IN  /\ actions' = tbl
        /\ modified_file' =
               InjectFrom(tbl[filename], commented, filename, 1, source)
        /\ op' = "inject_hooks"
        /\ arg' = <<filename>>
        /\ fired' = <<>>
        /\ raised' = "none"
        /\ frame' = NoFrame
        /\ stdout' = <<>>
        /\ logged' = <<>>
        /\ UNCHANGED <<source, commented, enabled, nadds>>
        /\ UNCHANGED <<scopeVars, stepVars, runVars, callVars>>

----------------------------------------------------------------------------
(* Actions and hook *)

\* str.format(**vars_) of a template with the given names
Render(names, vars_) == [i \in 1..Len(names) |-> vars_[names[i]]]

\* Mutant: a name that is not bound renders as nothing and the line is
\* written
ApplyAction_Blank(a, st) ==
    LET vars_ == Update(st.frame.f_globals, st.frame.f_locals)
        fr == [st.frame EXCEPT !.f_globals = vars_]
        known == SelectSeq(a.names, LAMBDA n : n \in DOMAIN vars_)
        st1 == [st EXCEPT !.frame = fr, !.fired = Append(@, a)]
    IN  IF a.kind = "Print"
        THEN [st1 EXCEPT !.stdout = Append(@, Render(known, vars_))]
        ELSE IF a.kind = "Log"
        THEN [st1 EXCEPT !.logged = Append(@, Render(known, vars_))]
        ELSE IF a.func = "raise" THEN [st1 EXCEPT !.raised = "E"]
        ELSE IF a.func = "disable" THEN [st1 EXCEPT !.enabled = FALSE]
        ELSE st1

\* One action applied to a frame: the state of the dispatch after it
ApplyAction(a, st) ==
    LET vars_ == Update(st.frame.f_globals, st.frame.f_locals)
        fr == [st.frame EXCEPT !.f_globals = vars_]
        bound == \A i \in 1..Len(a.names) : a.names[i] \in DOMAIN vars_
        st1 == [st EXCEPT !.frame = fr, !.fired = Append(@, a)]
    IN  IF ~bound THEN [st1 EXCEPT !.raised = "KeyError"]
        ELSE IF a.kind = "Print"
        THEN [st1 EXCEPT !.stdout = Append(@, Render(a.names, vars_))]
        ELSE IF a.kind = "Log"
        THEN [st1 EXCEPT !.logged = Append(@, Render(a.names, vars_))]
        ELSE IF a.func = "raise" THEN [st1 EXCEPT !.raised = "E"]
        ELSE IF a.func = "disable" THEN [st1 EXCEPT !.enabled = FALSE]
        ELSE st1

\* Mutant: an action that has already fired at this hook is not fired again
RECURSIVE Dispatch_Dedup(_, _)
Dispatch_Dedup(acts, st) ==
    IF acts = <<>> \/ st.raised # "none" THEN st
    ELSE IF \E i \in 1..Len(st.fired) : st.fired[i] = Head(acts)
         THEN Dispatch_Dedup(Tail(acts), st)
    ELSE Dispatch_Dedup(Tail(acts), ApplyAction(Head(acts), st))

\* Mutant: an exception of an action is caught and the loop goes on
RECURSIVE Dispatch_Swallow(_, _)
Dispatch_Swallow(acts, st) ==
    IF acts = <<>> THEN st
    ELSE Dispatch_Swallow(Tail(acts),
             [ApplyAction(Head(acts), st) EXCEPT !.raised = "none"])

\* Mutant: the gate is tested again before each action
RECURSIVE Dispatch_GateEach(_, _)
Dispatch_GateEach(acts, st) ==
    IF acts = <<>> \/ st.raised # "none" \/ ~st.enabled THEN st
    ELSE Dispatch_GateEach(Tail(acts), ApplyAction(Head(acts), st))

\* The for loop of hook: an exception ends it
RECURSIVE Dispatch(_, _)
Dispatch(acts, st) ==
    IF acts = <<>> \/ st.raised # "none" THEN st
    ELSE Dispatch(Tail(acts), ApplyAction(Head(acts), st))

\* Mutant: the list is looked up before the gate is tested
HookResult_LookupFirst(tbl, on, filename, lineno, fr) ==
    LET st0 == [frame |-> fr, fired |-> <<>>, raised |-> "none",
                stdout |-> <<>>, logged |-> <<>>, enabled |-> on]
    IN  [tbl |-> Vivify2(tbl, filename, lineno),
         st |-> IF on THEN Dispatch(Get2(tbl, filename, lineno), st0)
                ELSE st0]

HookResult(tbl, on, filename, lineno, fr) ==
    LET st0 == [frame |-> fr, fired |-> <<>>, raised |-> "none",
                stdout |-> <<>>, logged |-> <<>>, enabled |-> on]
    IN  IF on
        THEN [tbl |-> Vivify2(tbl, filename, lineno),
              st |-> Dispatch(Get2(tbl, filename, lineno), st0)]
        ELSE [tbl |-> tbl, st |-> st0]

hook(filename, lineno, fr) ==
    LET r == HookResult(actions, enabled, filename, lineno, fr)
    IN  /\ actions' = r.tbl
        /\ fired' = r.st.fired
        /\ raised' = r.st.raised
        /\ frame' = r.st.frame
        /\ stdout' = r.st.stdout
        /\ logged' = r.st.logged
        /\ enabled' = r.st.enabled
        /\ op' = "hook"
        /\ arg' = <<filename, lineno, fr>>
        /\ modified_file' = <<>>
        /\ UNCHANGED <<source, commented, nadds>>
        /\ UNCHANGED <<scopeVars, stepVars, runVars, callVars>>

Reset(name, a) ==
    /\ op' = name
    /\ arg' = a
    /\ modified_file' = <<>>
    /\ fired' = <<>>
    /\ raised' = "none"
    /\ frame' = NoFrame
    /\ stdout' = <<>>
    /\ logged' = <<>>
    /\ UNCHANGED <<scopeVars, stepVars, runVars, callVars>>

add(filename, line, action) ==
    /\ nadds < MaxAdds
    /\ nadds' = nadds + 1
    /\ actions' = LET t == Vivify2(actions, filename, line)
                  IN  [t EXCEPT ![filename][line] = Append(@, action)]
    /\ Reset("add", <<filename, line>>)
    /\ UNCHANGED <<source, commented, enabled>>

comment(filename, line) ==
    /\ commented' = commented \cup {<<filename, line>>}
    /\ Reset("comment", <<filename, line>>)
    /\ UNCHANGED <<source, actions, enabled, nadds>>

enable ==
    /\ enabled' = TRUE
    /\ Reset("enable", <<>>)
    /\ UNCHANGED <<source, actions, commented, nadds>>

disable ==
    /\ enabled' = FALSE
    /\ Reset("disable", <<>>)
    /\ UNCHANGED <<source, actions, commented, nadds>>

----------------------------------------------------------------------------
(* _run: the config script, then the rewritten target, inside Injector() *)

\* No run is under way
IdleRun ==
    /\ rpc = "idle"
    /\ nconfig = 0
    /\ ip = 0
    /\ globals_ = NoVars
    /\ events = <<>>

\* Nothing is wrapped and no Injector context is open
IdleCalls ==
    /\ wrapper = [kind |-> "none"]
    /\ call = <<>>
    /\ outcome = [type |-> "none"]
    /\ ctrace = <<>>
    /\ nCalls = <<>>
    /\ cstack = <<>>
    /\ clog = <<>>
    /\ nopen = 0

\* The target script of a run: the statement "s1" binds x to 1, "s2" to 2,
\* "s3" to 3, and "r" raises
RunFile == "t.py"

RunSources ==
    { << <<"s1", "\n">>, <<"s2", "\n">>, <<"s3", "\n">> >>,
      << <<"s1", "\n">>, <<" ", "\n">>, <<"s3", "\n">> >>,
      << <<"s1", "\n">>, <<"r", "\n">>, <<"s3", "\n">> >> }

Assigns == ("s1" :> 1) @@ ("s2" :> 2) @@ ("s3" :> 3)

\* The statements of a config script: registrations, or a statement that
\* raises
ConfigStmts ==
    [call : {"add"}, line : LineNos, action : {PrintX, CallRaise, CallNoop}]
    \cup [call : {"comment"}, line : LineNos, action : {PrintX}]
    \cup [call : {"raise"}, line : {1}, action : {PrintX}]

\* The position of the first token at or after p that is executed: white
\* space and the import are passed over, a comment runs to the end of its
\* line
RECURSIVE NextPos(_, _)
NextPos(text, p) ==
    IF p > Len(text) THEN p
    ELSE IF text[p] \in Whitespace \cup {"import sleuth.inject; "}
    THEN NextPos(text, p + 1)
    ELSE IF text[p] = "#"
    THEN LET N == {i \in p..Len(text) : text[i] = "\n"}
         IN  IF N = {} THEN Len(text) + 1
             ELSE NextPos(text, (CHOOSE i \in N : \A j \in N : i <= j) + 1)
    ELSE p

\* The line number written in a hook statement
ParseInt(tok) == CHOOSE n \in 0..(MaxLineNo + 1) : ToString(n) = tok

\* Mutant: the gate is left as it is when the block ends with an exception
Injector_exit_OnSuccess(exc) ==
    /\ enabled' = (exc # "none" /\ enabled)
    /\ raised' = exc
    /\ rpc' = "done"

\* Injector.__exit__: the gate is disabled; it returns None, so an exception
\* of the block goes on to the caller of _run
Injector_exit(exc) ==
    /\ enabled' = FALSE
    /\ raised' = exc
    /\ rpc' = "done"

\* with Injector() as inj: __enter__ enables the gate
Run_Enter ==
    /\ rpc = "idle"
    /\ enabled' = TRUE
    /\ rpc' = "config"
    /\ op' = "_run"
    /\ arg' = <<RunFile>>
    /\ UNCHANGED <<source, actions, commented, modified_file, fired, frame,
                   stdout, logged, nadds>>
    /\ UNCHANGED <<nconfig, ip, globals_, events, raised>>
    /\ UNCHANGED <<scopeVars, stepVars, callVars>>

\* exec(code, ...) of the config script, one statement of it
Run_Config(c) ==
    /\ rpc = "config"
    /\ nconfig < MaxConfig
    /\ nconfig' = nconfig + 1
    /\ events' = Append(events,
                        [type |-> IF c.call = "raise" THEN "raise"
                                  ELSE "config",
                         line |-> c.line, action |-> c.action,
                         seen |-> NoVars])
    /\ IF c.call = "raise"
       THEN /\ Injector_exit("ConfigError")
            /\ UNCHANGED <<actions, commented>>
       ELSE /\ actions' =
                  IF c.call = "add"
                  THEN LET t == Vivify2(actions, RunFile, c.line)
                       IN  [t EXCEPT ![RunFile][c.line] = Append(@, c.action)]
                  ELSE actions
            /\ commented' =
                  IF c.call = "comment"
                  THEN commented \cup {<<RunFile, c.line>>}
                  ELSE commented
            /\ UNCHANGED <<enabled, raised, rpc>>
    /\ UNCHANGED <<source, modified_file, fired, frame, stdout, logged,
                   nadds>>
    /\ UNCHANGED <<ip, globals_, op, arg>>
    /\ UNCHANGED <<scopeVars, stepVars, callVars>>

\* The config script has ended: inj.inject_hooks(pyfile), compile, cleanup()
Run_Rewrite ==
    /\ rpc = "config"
    /\ LET tbl == Vivify(actions, RunFile)
       IN  /\ actions' = tbl
           /\ modified_file' =
                  InjectFrom(tbl[RunFile], commented, RunFile, 1, source)
    /\ rpc' = "target"
    /\ ip' = 1
    /\ globals_' = NoVars
    /\ events' = Append(events, [type |-> "rewrite", line |-> 0,
                                 action |-> PrintX, seen |-> NoVars])
    /\ UNCHANGED <<source, commented, enabled, fired, frame, stdout, logged,
                   nadds>>
    /\ UNCHANGED <<nconfig, op, arg, raised>>
    /\ UNCHANGED <<scopeVars, stepVars, callVars>>

\* exec(code, ...) of the rewritten target: its next statement, which is a
\* hook call, an assignment or a raise; after the last one the block ends
Run_Target ==
    /\ rpc = "target"
    /\ LET p == NextPos(modified_file, ip)
       IN  IF p > Len(modified_file)
           THEN /\ Injector_exit("none")
                /\ UNCHANGED <<actions, globals_, events, stdout, logged,
                               ip>>
           ELSE IF modified_file[p] = HookCall
           THEN LET n == ParseInt(modified_file[p + 5])
                    fr == [f_globals |-> globals_, f_locals |-> globals_]
                    r == HookResult(actions, enabled, modified_file[p + 2],
                                    n, fr)
                IN  /\ actions' = r.tbl
                    /\ globals_' = r.st.frame.f_globals
                    /\ stdout' = stdout \o r.st.stdout
                    /\ logged' = logged \o r.st.logged
                    /\ events' = events \o
                          [i \in 1..Len(r.st.fired) |->
                              [type |-> "action", line |-> n,
                               action |-> r.st.fired[i], seen |-> globals_]]
                    /\ ip' = p + 8
                    /\ IF r.st.raised # "none"
                       THEN Injector_exit(r.st.raised)
                       ELSE /\ enabled' = r.st.enabled
                            /\ UNCHANGED <<raised, rpc>>
           ELSE IF modified_file[p] = "r"
           THEN /\ Injector_exit("E")
                /\ events' = Append(events, [type |-> "raise", line |-> 0,
                                             action |-> PrintX,
                                             seen |-> globals_])
                /\ UNCHANGED <<actions, globals_, stdout, logged, ip>>
           ELSE /\ globals_' = Update(globals_,
                                      ("x" :> Assigns[modified_file[p]]))
                /\ events' = Append(events,
                                    [type |-> "stmt",
                                     line |-> Assigns[modified_file[p]],
                                     action |-> PrintX, seen |-> globals_])
                /\ ip' = p + 1
                /\ UNCHANGED <<actions, stdout, logged, enabled, raised,
                               rpc>>
    /\ UNCHANGED <<source, commented, modified_file, fired, frame, nadds>>
    /\ UNCHANGED <<nconfig, op, arg>>
    /\ UNCHANGED <<scopeVars, stepVars, callVars>>

----------------------------------------------------------------------------
(* The live objects: modules, classes and functions and their attributes *)

\* The attribute names of the model, in the order dir() lists them (sorted).
\* Attributes whose values are not modules, classes or functions, and the
\* built-in types behind __class__, lead to no function and are left out.
AttrNames == <<"__wrapped__", "a", "f">>

\* isinstance(child, type), types.ModuleType, types.FunctionType
SearchedKinds == {"class", "module", "function"}

\* sys.modules
SysModules == ("m" :> "M")

NoAttrs == [n \in {} |-> "none"]

Container(kind, attrs, base) ==
    [kind |-> kind, attrs |-> attrs, base |-> base, name |-> "",
     module |-> "", wraps |-> "none", wkind |-> "none", definer |-> "none"]

\* A function made by def: __name__, __module__, and the module or class in
\* whose body the def statement ran
Function(name, module, definer) ==
    [kind |-> "function", attrs |-> NoAttrs, base |-> "none", name |-> name,
     module |-> module, wraps |-> "none", wkind |-> "none",
     definer |-> definer]

\* functools.wraps(func)(wrapper): __name__ and __module__ are copied,
\* wrapper.__dict__ is updated from func.__dict__, __wrapped__ is set
Wraps(h, func, wkind) ==
    [kind |-> "function",
     attrs |-> ("__wrapped__" :> func) @@ h[func].attrs,
     base |-> "none", name |-> h[func].name, module |-> h[func].module,
     wraps |-> func, wkind |-> wkind, definer |-> h[func].definer]

\* hasattr / getattr: the object's own attributes, then its base class's
RECURSIVE HasAttr(_, _, _)
HasAttr(h, o, n) ==
    \/ n \in DOMAIN h[o].attrs
    \/ h[o].base # "none" /\ HasAttr(h, h[o].base, n)

RECURSIVE GetAttr(_, _, _)
GetAttr(h, o, n) ==
    IF n \in DOMAIN h[o].attrs THEN h[o].attrs[n]
    ELSE GetAttr(h, h[o].base, n)

Dir(h, o) == SelectSeq(AttrNames, LAMBDA n : HasAttr(h, o, n))

\* Mutant: the object's dictionary is replaced, not updated
SetAttr_Replace(h, o, n, v) == [h EXCEPT ![o].attrs = (n :> v)]

\* setattr(o, n, v)
SetAttr(h, o, n, v) == [h EXCEPT ![o].attrs = (n :> v) @@ @]

----------------------------------------------------------------------------
(* _search and _get_parent_scope *)

ScopeLimit == 100

RECURSIVE search_helper(_, _, _, _, _, _, _)
RECURSIVE search_children(_, _, _, _, _, _, _, _)

\* Mutant: a node whose subtree holds no solution stays on the path
search_helper_NoPop(h, goal, node, pth, depth, limit, seen) ==
    IF node \in seen THEN [found |-> FALSE, path |-> pth, seen |-> seen]
    ELSE IF depth > limit THEN [found |-> FALSE, path |-> pth, seen |-> seen]
    ELSE LET seen1 == seen \cup {node}
             path1 == Append(pth, node)
         IN  IF node = goal
             THEN [found |-> TRUE, path |-> path1, seen |-> seen1]
             ELSE search_children(h, goal, node, Dir(h, node), path1, depth,
                                  limit, seen1)

\* The body of search_helper up to its for loop; path and seen are the
\* lists the calls share, returned with the result
search_helper(h, goal, node, pth, depth, limit, seen) ==
    IF node \in seen THEN [found |-> FALSE, path |-> pth, seen |-> seen]
    ELSE IF depth > limit THEN [found |-> FALSE, path |-> pth, seen |-> seen]
    ELSE LET seen1 == seen \cup {node}
             path1 == Append(pth, node)
         IN  IF node = goal
             THEN [found |-> TRUE, path |-> path1, seen |-> seen1]
             ELSE LET r == search_children(h, goal, node, Dir(h, node),
                                           path1, depth, limit, seen1)
                  IN  IF r.found THEN r
                      ELSE [found |-> FALSE,
                            path |-> SubSeq(r.path, 1, Len(r.path) - 1),
                            seen |-> r.seen]

\* for attr in dir(node): ... over the attributes still to visit
search_children(h, goal, node, attrs, pth, depth, limit, seen) ==
    IF attrs = <<>> THEN [found |-> FALSE, path |-> pth, seen |-> seen]
    ELSE LET child == GetAttr(h, node, Head(attrs))
         IN  IF h[child].kind \in SearchedKinds
             THEN LET r == search_helper(h, goal, child, pth, depth + 1,
                                         limit, seen)
                  IN  IF r.found THEN r
                      ELSE search_children(h, goal, node, Tail(attrs),
                                           r.path, depth, limit, r.seen)
             ELSE search_children(h, goal, node, Tail(attrs), pth, depth,
                                  limit, seen)

\* search_helper(func, module, [], 0, i, set()): the pass with depth limit i
Pass(h, func, module, i) == search_helper(h, func, module, <<>>, 0, i, {})

\* for i in range(1, limit): the path of the first pass that finds the
\* function, or <<>> (None) when none of the passes 1..limit-1 does
Search(h, func, module, limit) ==
    LET passes == 1..(limit - 1)
    IN  IF \E i \in passes : Pass(h, func, module, i).found
        THEN LET first == CHOOSE i \in passes :
                              /\ Pass(h, func, module, i).found
                              /\ \A k \in 1..(i - 1) :
                                     ~Pass(h, func, module, k).found
             IN  Pass(h, func, module, first).path
        ELSE <<>>

\* Mutant: the last element of the path is returned
GetParentScope_Last(h, func, module) ==
    LET p == Search(h, func, module, ScopeLimit)
    IN  IF p # <<>>
        THEN [raised |-> "none", parent |-> p[Len(p)], path |-> p]
        ELSE [raised |-> "SleuthNotFoundError", parent |-> "none",
              path |-> p]

\* _get_parent_scope: path[-2], or SleuthNotFoundError
GetParentScope(h, func, module) ==
    LET p == Search(h, func, module, ScopeLimit)
    IN  IF p # <<>>
        THEN [raised |-> "none", parent |-> p[Len(p) - 1], path |-> p]
        ELSE [raised |-> "SleuthNotFoundError", parent |-> "none",
              path |-> p]

----------------------------------------------------------------------------
(* tap, and calls of the functions *)

\* The object the next wrapper(...)(func) creates
NewObject == "W" \o ToString(ntaps + 1)

\* tap that binds the wrapper in the module before it looks for the parent
TapResult_BindFirst(h, func, wkind, w) ==
    IF h[func].module \notin DOMAIN SysModules
    THEN [raised |-> "SleuthNotFoundError", heap |-> h]
    ELSE LET module == SysModules[h[func].module]
             wrapped == Wraps(h, func, wkind)
             bound == SetAttr((w :> wrapped) @@ h, module, h[func].name, w)
             r == GetParentScope(h, func, module)
         IN  IF r.raised # "none" THEN [raised |-> r.raised, heap |-> bound]
             ELSE [raised |-> "none",
                   heap |-> SetAttr((w :> wrapped) @@ h, r.parent,
                                    h[func].name, w)]

\* tap(func, wrapper): the objects after it and what it raised
TapResult(h, func, wkind, w) ==
    IF h[func].module \notin DOMAIN SysModules
    THEN [raised |-> "SleuthNotFoundError", heap |-> h]
    ELSE LET module == SysModules[h[func].module]
             wrapped == Wraps(h, func, wkind)
             r == GetParentScope(h, func, module)
         IN  IF r.raised # "none" THEN [raised |-> r.raised, heap |-> h]
             ELSE [raised |-> "none",
                   heap |-> SetAttr((w :> wrapped) @@ h, r.parent,
                                    h[func].name, w)]

\* The functions that run when o is called: a skip wrapper returns at once,
\* every other wrapper calls the function it wraps
RECURSIVE CallTrace(_, _)
CallTrace(h, o) ==
    IF h[o].wraps = "none" \/ h[o].wkind = "skip" THEN <<o>>
    ELSE <<o>> \o CallTrace(h, h[o].wraps)

WrapperKinds == {"skip", "callOnEnter"}

IdleInjector ==
    /\ source = << <<"a", "\n">> >>
    /\ actions = [f \in {} |-> <<>>]
    /\ commented = {}
    /\ enabled = FALSE
    /\ modified_file = <<>>
    /\ fired = <<>>
    /\ frame = NoFrame
    /\ stdout = <<>>
    /\ logged = <<>>
    /\ nadds = 0

search(func, module, limit) ==
    /\ op = "init"
    /\ path' = Search(heap, func, module, limit)
    /\ parent' = "none"
    /\ op' = "search"
    /\ arg' = <<func, module, limit>>
    /\ raised' = "none"
    /\ trace' = <<>>
    /\ UNCHANGED <<heap, alias, ntaps>>
    /\ UNCHANGED <<injVars, stepVars, runVars, callVars>>

get_parent_scope(func, module) ==
    LET r == GetParentScope(heap, func, module)
    IN  /\ op = "init"
        /\ parent' = r.parent
        /\ raised' = r.raised
        /\ path' = r.path
        /\ op' = "get_parent_scope"
        /\ arg' = <<func, module>>
        /\ trace' = <<>>
        /\ UNCHANGED <<heap, alias, ntaps>>
        /\ UNCHANGED <<injVars, stepVars, runVars, callVars>>

tap(func, wkind) ==
    LET r == TapResult(heap, func, wkind, NewObject)
    IN  /\ ntaps < MaxTaps
        /\ ntaps' = ntaps + 1
        /\ heap' = r.heap
        /\ raised' = r.raised
        /\ op' = "tap"
        /\ arg' = <<func, wkind>>
        /\ path' = <<>>
        /\ parent' = "none"
        /\ trace' = <<>>
        /\ UNCHANGED alias
        /\ UNCHANGED <<injVars, stepVars, runVars, callVars>>

\* module.f(...)
call_module_f ==
    /\ HasAttr(heap, "M", "f")
    /\ heap[GetAttr(heap, "M", "f")].kind = "function"
    /\ trace' = CallTrace(heap, GetAttr(heap, "M", "f"))
    /\ op' = "call_module_f"
    /\ arg' = <<>>
    /\ raised' = "none"
    /\ path' = <<>>
    /\ parent' = "none"
    /\ UNCHANGED <<heap, alias, ntaps>>
    /\ UNCHANGED <<injVars, stepVars, runVars, callVars>>

\* alias(...)
call_alias ==
    /\ alias # "none"
    /\ heap[alias].kind = "function"
    /\ trace' = CallTrace(heap, alias)
    /\ op' = "call_alias"
    /\ arg' = <<>>
    /\ raised' = "none"
    /\ path' = <<>>
    /\ parent' = "none"
    /\ UNCHANGED <<heap, alias, ntaps>>
    /\ UNCHANGED <<injVars, stepVars, runVars, callVars>>

----------------------------------------------------------------------------
(* _get_parent_scope of src/sleuth.py, which follows __qualname__ *)

\* The loop over qualname.split('.'): path.append(getattr(path[-1], attr)),
\* where a getattr that fails raises AttributeError
RECURSIVE QualnameWalk(_, _, _)
QualnameWalk(h, pth, attrs) ==
    IF attrs = <<>> THEN [raised |-> "none", path |-> pth]
    ELSE IF HasAttr(h, pth[Len(pth)], Head(attrs))
    THEN QualnameWalk(h, Append(pth, GetAttr(h, pth[Len(pth)], Head(attrs))),
                      Tail(attrs))
    ELSE [raised |-> "AttributeError", path |-> pth]

\* _get_parent_scope of src/sleuth.py for a function that has __qualname__
\* (every function has one from Python 3.3 on): path[-2] of the walk
GetParentScopeQualname(h, func, module, qualname) ==
    LET w == QualnameWalk(h, <<module>>, qualname)
    IN  IF w.raised # "none"
        THEN [raised |-> w.raised, parent |-> "none", path |-> w.path]
        ELSE [raised |-> "none", parent |-> w.path[Len(w.path) - 1],
              path |-> w.path]

get_parent_scope_qualname(func, module, qualname) ==
    LET r == GetParentScopeQualname(heap, func, module, qualname)
    IN  /\ op = "init"
        /\ parent' = r.parent
        /\ raised' = r.raised
        /\ path' = r.path
        /\ op' = "get_parent_scope_qualname"
        /\ arg' = <<func, module, qualname>>
        /\ trace' = <<>>
        /\ UNCHANGED <<heap, alias, ntaps>>
        /\ UNCHANGED <<injVars, stepVars, runVars, callVars>>

----------------------------------------------------------------------------
(* The container graphs the resolver is run on *)

Containers == {"M", "X", "Y"}
Slots == Containers \X {"a", "f"}

AttrsOf(s, c) ==
    [n \in {n \in {"a", "f"} : s[<<c, n>>] # "none"} |-> s[<<c, n>>]]

\* "Y" is a class, a subclass of "X", another module, or an object that is
\* neither a module, a class nor a function
YVariants == { <<"class", "none">>, <<"class", "X">>, <<"module", "none">>,
               <<"other", "none">> }

MkHeap(s, yv, definer) ==
    [o \in Containers \cup {"F"} |->
        CASE o = "M" -> Container("module", AttrsOf(s, "M"), "none")
          [] o = "X" -> Container("class", AttrsOf(s, "X"), "none")
          [] o = "Y" -> Container(yv[1], AttrsOf(s, "Y"), yv[2])
          [] o = "F" -> Function("f", "m", definer)]

\* Objects reached from the module in at most n attribute lookups
RECURSIVE Reach(_, _)
Reach(h, n) ==
    IF n = 0 THEN {"M"}
    ELSE LET R == Reach(h, n - 1)
         IN  R \cup {GetAttr(h, o, a) : <<o, a>> \in
                        {oa \in R \X {"__wrapped__", "a", "f"} :
                            HasAttr(h, oa[1], oa[2])}}

\* Classes defined in the module's body or in the body of such a class
RECURSIVE Lexical(_, _)
Lexical(h, n) ==
    IF n = 0 THEN {"M"}
    ELSE LET L == Lexical(h, n - 1)
         IN  L \cup {c \in Containers : h[c].kind = "class" /\
                        \E o \in L : \E a \in DOMAIN h[o].attrs :
                            h[o].attrs[a] = c}

\* Where the def statement of "F" may have run: its name is bound there
Definers(h) ==
    {c \in Lexical(h, 2) : "f" \in DOMAIN h[c].attrs /\ h[c].attrs["f"] = "F"}

\* No attribute is given to an object the module does not reach
NoGarbage(h) ==
    \A c \in Containers :
        h[c].attrs # NoAttrs =>
            \/ c \in Reach(h, 3)
            \/ \E d \in Reach(h, 3) : h[d].base = c

Graphs ==
    {s \in [Slots -> {"none", "M", "X", "Y", "F"}] :
        Cardinality({sl \in Slots : s[sl] # "none"}) <= MaxEdges}

InitHeaps ==
    {h \in {MkHeap(s, yv, "none") : s \in Graphs, yv \in YVariants} :
        NoGarbage(h)}

InitScope ==
    /\ \E h \in InitHeaps :
          \E d \in (IF Definers(h) = {} THEN {"none"} ELSE Definers(h)) :
              heap = [h EXCEPT !["F"].definer = d]
    /\ path = <<>>
    /\ parent = "none"
    /\ alias = IF HasAttr(heap, "M", "f") THEN GetAttr(heap, "M", "f")
               ELSE "none"
    /\ trace = <<>>
    /\ ntaps = 0
    /\ op = "init"
    /\ arg = <<>>
    /\ raised = "none"

\* No search is running statement by statement
IdleSteps ==
    /\ pc = "idle"
    /\ cap = 0
    /\ passLimit = 0
    /\ stack = <<>>
    /\ spath = <<>>
    /\ sseen = {}
    /\ result = <<>>

IdleScope ==
    /\ heap = MkHeap([sl \in Slots |-> "none"], <<"class", "none">>, "none")
    /\ path = <<>>
    /\ parent = "none"
    /\ alias = "none"
    /\ trace = <<>>
    /\ ntaps = 0

\* The resolver run on every graph
InitSearch == IdleInjector /\ InitScope /\ IdleSteps /\ IdleRun /\ IdleCalls

NextSearch ==
    \/ \E limit \in 1..MaxLimit : search("F", "M", limit)
    \/ get_parent_scope("F", "M")

SpecSearch == InitSearch /\ [][NextSearch]_vars

\* The __qualname__ values of "F": a name at module scope, a name in a
\* class, and the name of a function defined inside a function
Qualnames ==
    { <<"f">>, <<"a", "f">>, <<"f", "f">>, <<"a", "<locals>", "f">> }

\* __qualname__ is the lexical path of the def statement: when the function
\* is still bound where it was defined, the names before the last lead from
\* the module to that class through the attributes the objects own
RECURSIVE LeadsTo(_, _, _, _)
LeadsTo(h, o, names, d) ==
    IF names = <<>> THEN o = d
    ELSE /\ Head(names) \in DOMAIN h[o].attrs
         /\ h[h[o].attrs[Head(names)]].kind = "class"
         /\ LeadsTo(h, h[o].attrs[Head(names)], Tail(names), d)

QualnameOf(h, q) ==
    h["F"].definer # "none" =>
        LeadsTo(h, "M", SubSeq(q, 1, Len(q) - 1), h["F"].definer)

NextQualname ==
    \E q \in Qualnames :
        QualnameOf(heap, q) /\ get_parent_scope_qualname("F", "M", q)

SpecQualname == InitSearch /\ [][NextQualname]_vars

----------------------------------------------------------------------------
(* _search, one statement at a time *)

\* Mutant: the loop variable of the passes does not advance
NextBound_Stuck(i) == i

\* for i in range(1, limit): the bound after i
NextBound(i) == i + 1

\* A call search_helper(goal, node, path, depth, limit, seen) from the state
\* (stk, pth, sn), up to the first iteration of its loop or its return
EnterNode(goal, node, depth, stk, pth, sn) ==
    IF node \in sn \/ depth > passLimit
    THEN /\ stack' = stk
         /\ spath' = pth
         /\ sseen' = sn
         /\ UNCHANGED <<pc, result>>
    ELSE IF node = goal
    THEN /\ pc' = "done"
         /\ result' = Append(pth, node)
         /\ stack' = <<>>
         /\ spath' = Append(pth, node)
         /\ sseen' = sn \cup {node}
    ELSE /\ stack' = Append(stk, [node |-> node, attrs |-> Dir(heap, node)])
         /\ spath' = Append(pth, node)
         /\ sseen' = sn \cup {node}
         /\ UNCHANGED <<pc, result>>

\* _search(func, module, limit) is called
StartSearch(limit) ==
    /\ pc = "idle"
    /\ cap' = limit
    /\ passLimit' = 1
    /\ pc' = "pass"
    /\ UNCHANGED <<stack, spath, sseen, result>>
    /\ UNCHANGED <<injVars, scopeVars, runVars, callVars, op, arg, raised>>

\* The head of the for loop over the passes: the next pass starts with
\* search_helper(func, module, [], 0, i, set()), or the loop is over
StartPass(func, module) ==
    /\ pc = "pass"
    /\ stack = <<>>
    /\ IF passLimit >= cap
       THEN /\ pc' = "done"
            /\ result' = <<>>
            /\ UNCHANGED <<stack, spath, sseen>>
       ELSE EnterNode(func, module, 0, <<>>, <<>>, {})
    /\ UNCHANGED <<cap, passLimit>>
    /\ UNCHANGED <<injVars, scopeVars, runVars, callVars, op, arg, raised>>

\* One iteration of for attr in dir(node) in the innermost call
Iterate(func) ==
    /\ pc = "pass"
    /\ stack # <<>>
    /\ stack[Len(stack)].attrs # <<>>
    /\ LET top == stack[Len(stack)]
           child == GetAttr(heap, top.node, Head(top.attrs))
           stk == [stack EXCEPT ![Len(stack)].attrs = Tail(@)]
       IN  IF heap[child].kind \in SearchedKinds
           THEN EnterNode(func, child, Len(stack), stk, spath, sseen)
           ELSE /\ stack' = stk
                /\ UNCHANGED <<pc, result, spath, sseen>>
    /\ UNCHANGED <<cap, passLimit>>
    /\ UNCHANGED <<injVars, scopeVars, runVars, callVars, op, arg, raised>>

\* The loop of the innermost call is over: path.pop(); return None. When it
\* was the outermost call the pass has failed and i advances.
Return ==
    /\ pc = "pass"
    /\ stack # <<>>
    /\ stack[Len(stack)].attrs = <<>>
    /\ stack' = SubSeq(stack, 1, Len(stack) - 1)
    /\ spath' = SubSeq(spath, 1, Len(spath) - 1)
    /\ passLimit' = IF Len(stack) = 1 THEN NextBound(passLimit) ELSE passLimit
    /\ UNCHANGED <<pc, cap, sseen, result>>
    /\ UNCHANGED <<injVars, scopeVars, runVars, callVars, op, arg, raised>>

InitSteps ==
    /\ IdleInjector
    /\ IdleRun
    /\ IdleCalls
    /\ InitScope
    /\ heap["Y"].kind = "class"
    /\ IdleSteps

NextSteps ==
    \/ \E limit \in 1..MaxLimit : StartSearch(limit)
    \/ StartPass("F", "M")
    \/ Iterate("F")
    \/ Return

SpecSteps == InitSteps /\ [][NextSteps]_vars /\ WF_vars(NextSteps)

----------------------------------------------------------------------------
(* Patching: tap on the functions of a graph, and calls through them *)

\* The graphs in which the module reaches "F" through modules and classes,
\* "Y" having no attributes of its own
InitTap ==
    /\ IdleInjector
    /\ IdleRun
    /\ IdleCalls
    /\ IdleSteps
    /\ InitScope
    /\ "F" \in Reach(heap, 3)
    /\ heap["Y"].attrs = NoAttrs
    /\ heap["Y"].kind # "other"
    /\ "Y" \notin Reach(heap, 3) => heap["Y"].base = "none"

NextTap ==
    \/ \E func \in {o \in DOMAIN heap : heap[o].kind = "function"},
          wkind \in WrapperKinds : tap(func, wkind)
    \/ call_module_f
    \/ call_alias

SpecTap == InitTap /\ [][NextTap]_vars

\* tap where it can fail: the function may not be reachable from the module,
\* and its __module__ may name a module that is not loaded
InitTapFail ==
    /\ IdleInjector
    /\ IdleRun
    /\ IdleSteps
    /\ IdleCalls
    /\ \E h \in InitHeaps, mod \in {"m", "gone"} :
          /\ h["Y"].attrs = NoAttrs
          /\ heap = [h EXCEPT !["F"].module = mod]
    /\ path = <<>>
    /\ parent = "none"
    /\ alias = IF HasAttr(heap, "M", "f") THEN GetAttr(heap, "M", "f")
               ELSE "none"
    /\ trace = <<>>
    /\ ntaps = 0
    /\ op = "init"
    /\ arg = <<>>
    /\ raised = "none"

SpecTapFail == InitTapFail /\ [][NextTap]_vars

----------------------------------------------------------------------------
(* The injector *)

InitInjector ==
    /\ source \in Sources
    /\ actions = [f \in {} |-> <<>>]
    /\ commented = {}
    /\ enabled = FALSE
    /\ op = "init"
    /\ arg = <<>>
    /\ modified_file = <<>>
    /\ fired = <<>>
    /\ raised = "none"
    /\ frame = NoFrame
    /\ stdout = <<>>
    /\ logged = <<>>
    /\ nadds = 0

Init == InitInjector /\ IdleScope /\ IdleSteps /\ IdleRun /\ IdleCalls

Next ==
    \/ \E f \in Filenames, l \in LineNos, a \in Actions : add(f, l, a)
    \/ \E f \in Filenames, l \in LineNos : comment(f, l)
    \/ enable
    \/ disable
    \/ \E f \in Filenames : inject_hooks(f)
    \/ \E f \in Filenames, l \in LineNos, fr \in Frames : hook(f, l, fr)

Spec == Init /\ [][Next]_vars

\* Two spellings of the path of the one target file
Spellings == {"t.py", "./t.py"}

\* The injector used with both spellings of the target's path
NextSpellings ==
    \/ \E f \in Spellings, l \in LineNos : add(f, l, PrintX)
    \/ \E f \in Spellings, l \in LineNos : comment(f, l)
    \/ enable
    \/ disable
    \/ \E f \in Spellings : inject_hooks(f)
    \/ \E f \in Spellings, l \in LineNos, fr \in Frames : hook(f, l, fr)

SpecSpellings == Init /\ [][NextSpellings]_vars

\* The injector used with locations that are not lines of the file
NextStale ==
    \/ \E f \in Filenames, l \in RegLineNos : add(f, l, PrintX)
    \/ \E f \in Filenames, l \in RegLineNos : comment(f, l)
    \/ enable
    \/ disable
    \/ \E f \in Filenames : inject_hooks(f)
    \/ \E f \in Filenames, l \in RegLineNos :
           hook(f, l, [f_globals |-> ("x" :> 1), f_locals |-> ("x" :> 1)])

SpecStale == Init /\ [][NextStale]_vars

\* The injector with print and log actions whose templates name x or y
RenderActions == {PrintX, PrintY, LogX, LogY}

NextRender ==
    \/ \E f \in Filenames, l \in LineNos, a \in RenderActions : add(f, l, a)
    \/ enable
    \/ disable
    \/ \E f \in Filenames, l \in LineNos, fr \in Frames : hook(f, l, fr)

SpecRender == Init /\ [][NextRender]_vars

\* One run of _run(configFile, pyfile) on each target
InitRun ==
    /\ source \in RunSources
    /\ actions = [f \in {} |-> <<>>]
    /\ commented = {}
    /\ enabled = FALSE
    /\ op = "init"
    /\ arg = <<>>
    /\ modified_file = <<>>
    /\ fired = <<>>
    /\ raised = "none"
    /\ frame = NoFrame
    /\ stdout = <<>>
    /\ logged = <<>>
    /\ nadds = 0
    /\ IdleScope
    /\ IdleSteps
    /\ IdleRun
    /\ IdleCalls

NextRun ==
    \/ Run_Enter
    \/ \E c \in ConfigStmts : Run_Config(c)
    \/ Run_Rewrite
    \/ Run_Target

SpecRun == InitRun /\ [][NextRun]_vars

\* The injector with an action that disables the gate
GateActions == {PrintX, CallDisable}

NextGate ==
    \/ \E f \in Filenames, l \in LineNos, a \in GateActions : add(f, l, a)
    \/ enable
    \/ disable
    \/ \E f \in Filenames, l \in LineNos, fr \in Frames : hook(f, l, fr)

SpecGate == Init /\ [][NextGate]_vars

----------------------------------------------------------------------------
(* The function wrappers of sleuth/wrap.py and the calls through them *)

\* Longest argument list of a call
MaxArgs == 2

\* Python values are written as strings: None, the truth values, a number
\* and instances of the exception classes
None == "None"

ExceptionClasses == {"Exception", "ValueError", "KeyError", "TypeError"}

ArgValues == {"42", "ValueError", "KeyError"}

NoKwargs == [k \in {} |-> None]

Kwargs == {NoKwargs, [k \in {"arg1"} |-> "10"]}

Args == UNION {[1..n -> ArgValues] : n \in 0..MaxArgs}

\* The classes an exception of class c is an instance of
Mro(c) == {c, "Exception"}

\* `except exceptionList as e` takes e: it is an instance of a listed class
Catches(exceptionList, e) == Mro(e) \cap exceptionList # {}

\* bool(v)
Truthy(v) == v \notin {"None", "False", "0"}

Returns(v) == [type |-> "return", value |-> v]

Raises(e) == [type |-> "raise", value |-> e]

\* The functions the wrappers are put around: what a call gives
doNothing(args, kwargs) == Returns(None)

returnValue(args, kwargs) ==
    IF Len(args) = 1 /\ kwargs = NoKwargs
    THEN Returns(args[1])
    ELSE Raises("TypeError")

raiseException(args, kwargs) ==
    IF Len(args) > 1 \/ kwargs # NoKwargs THEN Raises("TypeError")
    ELSE IF Len(args) = 0 THEN Raises("Exception")
    ELSE IF args[1] \in ExceptionClasses THEN Raises(args[1])
    ELSE Raises("TypeError")

Funcs == {"doNothing", "returnValue", "raiseException"}

\* func(*args, **kwargs)
CallFunc(func, args, kwargs) ==
    CASE func = "doNothing" -> doNothing(args, kwargs)
      [] func = "returnValue" -> returnValue(args, kwargs)
      [] func = "raiseException" -> raiseException(args, kwargs)

\* What a call of a wrapper runs: the wrapped function, the callback, the
\* logger, the debugger
FuncCalled(func, args, kwargs) ==
    [type |-> "func", callee |-> func, args |-> args, kwargs |-> kwargs]

CallbackCalled(args, kwargs) ==
    [type |-> "callback", callee |-> "callback", args |-> args,
     kwargs |-> kwargs]

Logged(e) ==
    [type |-> "log", callee |-> "logger", args |-> <<e>>, kwargs |-> NoKwargs]

DebuggerEntered ==
    [type |-> "debug", callee |-> "debugger", args |-> <<>>,
     kwargs |-> NoKwargs]

\* skip where the wrapper calls the function and drops its result
skip_wrapper_Calls(w, args, kwargs) ==
    LET r == CallFunc(w.func, args, kwargs)
    IN  [outcome |-> IF r.type = "raise" THEN r ELSE Returns(w.returnValue),
         trace |-> <<FuncCalled(w.func, args, kwargs)>>]

\* skip: wrapper
skip_wrapper(w, args, kwargs) ==
    [outcome |-> Returns(w.returnValue), trace |-> <<>>]

\* callOnException of sleuth/wrap.py: wrapper
callOnException_wrapper(w, args, kwargs) ==
    LET r == CallFunc(w.func, args, kwargs)
        called == FuncCalled(w.func, args, kwargs)
    IN  IF r.type = "raise" /\ Catches(w.exceptionList, r.value)
        THEN [outcome |-> IF ~Truthy(w.callback) THEN r ELSE Returns(None),
              trace |-> <<called,
                          CallbackCalled(<<w.func, r.value>>, NoKwargs)>>]
        ELSE [outcome |-> r, trace |-> <<called>>]

\* callOnException of sleuth/sleuth.py: wrapper
sleuth_callOnException_wrapper(w, args, kwargs) ==
    LET r == CallFunc(w.func, args, kwargs)
        called == FuncCalled(w.func, args, kwargs)
    IN  IF r.type = "raise" /\ Catches(w.exceptionList, r.value)
        THEN [outcome |-> IF ~Truthy(w.callback) THEN r ELSE Returns(None),
              trace |-> <<called, CallbackCalled(<<r.value>>, NoKwargs)>>]
        ELSE [outcome |-> r, trace |-> <<called>>]

\* logOnException where a logged exception is never raised again
logOnException_wrapper_Swallow(w, args, kwargs) ==
    LET r == CallFunc(w.func, args, kwargs)
        called == FuncCalled(w.func, args, kwargs)
    IN  IF r.type = "raise" /\ Catches(w.exceptionList, r.value)
        THEN [outcome |-> Returns(None), trace |-> <<called, Logged(r.value)>>]
        ELSE [outcome |-> r, trace |-> <<called>>]

\* logOnException: wrapper
logOnException_wrapper(w, args, kwargs) ==
    LET r == CallFunc(w.func, args, kwargs)
        called == FuncCalled(w.func, args, kwargs)
    IN  IF r.type = "raise" /\ Catches(w.exceptionList, r.value)
        THEN [outcome |-> IF ~w.suppress THEN r ELSE Returns(None),
              trace |-> <<called, Logged(r.value)>>]
        ELSE [outcome |-> r, trace |-> <<called>>]

\* breakOnException where the exception is raised again after the debugger
breakOnException_wrapper_Reraise(w, args, kwargs) ==
    LET r == CallFunc(w.func, args, kwargs)
        called == FuncCalled(w.func, args, kwargs)
    IN  IF r.type = "raise" /\ Catches(w.exceptionList, r.value)
        THEN [outcome |-> r, trace |-> <<called, DebuggerEntered>>]
        ELSE [outcome |-> r, trace |-> <<called>>]

\* breakOnException: wrapper
breakOnException_wrapper(w, args, kwargs) ==
    LET r == CallFunc(w.func, args, kwargs)
        called == FuncCalled(w.func, args, kwargs)
    IN  IF r.type = "raise" /\ Catches(w.exceptionList, r.value)
        THEN [outcome |-> Returns(None), trace |-> <<called, DebuggerEntered>>]
        ELSE [outcome |-> r, trace |-> <<called>>]

\* callOnEnter of sleuth/wrap.py: wrapper
callOnEnter_wrapper(w, args, kwargs) ==
    [outcome |-> CallFunc(w.func, args, kwargs),
     trace |-> <<CallbackCalled(<<w.func>> \o args, kwargs),
                 FuncCalled(w.func, args, kwargs)>>]

\* callOnEnter of sleuth/sleuth.py: wrapper
sleuth_callOnEnter_wrapper(w, args, kwargs) ==
    [outcome |-> CallFunc(w.func, args, kwargs),
     trace |-> <<CallbackCalled(args, kwargs),
                 FuncCalled(w.func, args, kwargs)>>]

\* wrapper(*args, **kwargs), for the wrapper a decorator returned
WrapperCall(w, args, kwargs) ==
    CASE w.kind = "skip" -> skip_wrapper(w, args, kwargs)
      [] w.kind = "callOnException" ->
            callOnException_wrapper(w, args, kwargs)
      [] w.kind = "sleuth.callOnException" ->
            sleuth_callOnException_wrapper(w, args, kwargs)
      [] w.kind = "logOnException" -> logOnException_wrapper(w, args, kwargs)
      [] w.kind = "breakOnException" ->
            breakOnException_wrapper(w, args, kwargs)
      [] w.kind = "callOnEnter" -> callOnEnter_wrapper(w, args, kwargs)
      [] w.kind = "sleuth.callOnEnter" ->
            sleuth_callOnEnter_wrapper(w, args, kwargs)

ReturnValues == {None, "r"}

ExceptionLists == {{"Exception"}, {"ValueError"}, {"ValueError", "KeyError"}}

\* What the callback returns
CallbackResults == {None, "False", "True"}

\* A decorator has returned a new wrapper: nothing has been called yet
Decorated ==
    /\ call' = <<>>
    /\ outcome' = [type |-> "none"]
    /\ ctrace' = <<>>
    /\ UNCHANGED <<nCalls, cstack, clog, nopen>>
    /\ UNCHANGED <<injVars, scopeVars, stepVars, runVars, op, arg, raised>>

skip(func, retval) ==
    /\ wrapper' = [kind |-> "skip", func |-> func, returnValue |-> retval]
    /\ Decorated

callOnException(func, exceptionList, callback) ==
    /\ wrapper' = [kind |-> "callOnException", func |-> func,
                   exceptionList |-> exceptionList, callback |-> callback]
    /\ Decorated

sleuth_callOnException(func, exceptionList, callback) ==
    /\ wrapper' = [kind |-> "sleuth.callOnException", func |-> func,
                   exceptionList |-> exceptionList, callback |-> callback]
    /\ Decorated

logOnException(func, exceptionList, suppress) ==
    /\ wrapper' = [kind |-> "logOnException", func |-> func,
                   exceptionList |-> exceptionList, suppress |-> suppress]
    /\ Decorated

breakOnException(func, exceptionList) ==
    /\ wrapper' = [kind |-> "breakOnException", func |-> func,
                   exceptionList |-> exceptionList]
    /\ Decorated

callOnEnter(func) ==
    /\ wrapper' = [kind |-> "callOnEnter", func |-> func]
    /\ Decorated

sleuth_callOnEnter(func) ==
    /\ wrapper' = [kind |-> "sleuth.callOnEnter", func |-> func]
    /\ Decorated

\* The code under test calls the wrapped function
wrapper_call(args, kwargs) ==
    /\ wrapper.kind \notin {"none", "logCalls"}
    /\ LET r == WrapperCall(wrapper, args, kwargs)
       IN  /\ call' = [args |-> args, kwargs |-> kwargs]
           /\ outcome' = r.outcome
           /\ ctrace' = r.trace
    /\ UNCHANGED <<wrapper, nCalls, cstack, clog, nopen>>
    /\ UNCHANGED <<injVars, scopeVars, stepVars, runVars, op, arg, raised>>

InitCalls ==
    /\ IdleInjector
    /\ IdleScope
    /\ IdleSteps
    /\ IdleRun
    /\ IdleCalls
    /\ op = "init"
    /\ arg = <<>>
    /\ raised = "none"

NextCalls ==
    \/ \E func \in Funcs, retval \in ReturnValues : skip(func, retval)
    \/ \E func \in Funcs, el \in ExceptionLists, cb \in CallbackResults :
          \/ callOnException(func, el, cb)
          \/ sleuth_callOnException(func, el, cb)
    \/ \E func \in Funcs, el \in ExceptionLists, suppress \in BOOLEAN :
          logOnException(func, el, suppress)
    \/ \E func \in Funcs, el \in ExceptionLists : breakOnException(func, el)
    \/ \E func \in Funcs : callOnEnter(func) \/ sleuth_callOnEnter(func)
    \/ \E args \in Args, kwargs \in Kwargs : wrapper_call(args, kwargs)

SpecCalls == InitCalls /\ [][NextCalls]_vars

----------------------------------------------------------------------------
(* logCalls: the wrappers count their calls, which may nest *)

\* Most calls of one wrapped instance
MaxCalls == 2

\* The wrapped instances: logCalls applied twice gives two closures
LogInsts == {"w1", "w2"}

\* The exit message numbered with the counter as it stands at the exit
ExitMessage_Counter(fr, counters) ==
    [inst |-> fr.inst, text |-> "Exiting", callNumber |-> counters[fr.inst] - 1,
     entry |-> fr.entry]

\* exitFmtStr.format(**locals()): the message of the call fr at its exit;
\* entry is the place in the log of the call's own entry message
ExitMessage(fr, counters) ==
    [inst |-> fr.inst, text |-> "Exiting", callNumber |-> fr.callNumber,
     entry |-> fr.entry]

\* logCalls(func): a new closure with nCalls = 0
logCalls(i) ==
    /\ i \notin DOMAIN nCalls
    /\ nCalls' = [j \in DOMAIN nCalls \cup {i} |->
                     IF j = i THEN 0 ELSE nCalls[j]]
    /\ UNCHANGED <<wrapper, call, outcome, ctrace, cstack, clog, nopen>>
    /\ UNCHANGED <<injVars, scopeVars, stepVars, runVars, op, arg, raised>>

\* wrapper, up to the call of func: the code under test, or the body of a
\* wrapped function that is running, calls the wrapped instance i
logCalls_enter(i) ==
    /\ i \in DOMAIN nCalls
    /\ nCalls[i] < MaxCalls
    /\ clog' = Append(clog, [inst |-> i, text |-> "Calling",
                             callNumber |-> nCalls[i],
                             entry |-> Len(clog) + 1])
    /\ nCalls' = [nCalls EXCEPT ![i] = @ + 1]
    /\ cstack' = Append(cstack, [inst |-> i, callNumber |-> nCalls[i],
                                 entry |-> Len(clog) + 1])
    /\ UNCHANGED <<wrapper, call, outcome, ctrace, nopen>>
    /\ UNCHANGED <<injVars, scopeVars, stepVars, runVars, op, arg, raised>>

\* wrapper, after func returned
logCalls_exit ==
    /\ cstack # <<>>
    /\ clog' = Append(clog, ExitMessage(cstack[Len(cstack)], nCalls))
    /\ cstack' = SubSeq(cstack, 1, Len(cstack) - 1)
    /\ UNCHANGED <<wrapper, call, outcome, ctrace, nCalls, nopen>>
    /\ UNCHANGED <<injVars, scopeVars, stepVars, runVars, op, arg, raised>>

\* func raised: the exception leaves the wrapper, nothing is logged
logCalls_raise ==
    /\ cstack # <<>>
    /\ cstack' = SubSeq(cstack, 1, Len(cstack) - 1)
    /\ UNCHANGED <<wrapper, call, outcome, ctrace, nCalls, clog, nopen>>
    /\ UNCHANGED <<injVars, scopeVars, stepVars, runVars, op, arg, raised>>

NextLogCalls ==
    \/ \E i \in LogInsts : logCalls(i)
    \/ \E i \in LogInsts : logCalls_enter(i)
    \/ logCalls_exit
    \/ logCalls_raise

SpecLogCalls == InitCalls /\ [][NextLogCalls]_vars

----------------------------------------------------------------------------
(* Injector contexts inside one another *)

\* Most Injector contexts open at once
MaxOpen == 2

\* What every call on the injector that is not a hook leaves behind
NoHookRan ==
    /\ modified_file' = <<>>
    /\ fired' = <<>>
    /\ raised' = "none"
    /\ frame' = NoFrame
    /\ stdout' = <<>>
    /\ logged' = <<>>
    /\ UNCHANGED <<source, actions, commented, nadds>>
    /\ UNCHANGED <<wrapper, call, outcome, ctrace, nCalls, cstack, clog>>
    /\ UNCHANGED <<scopeVars, stepVars, runVars>>

\* with Injector(): Injector.__enter__ enables the gate of the one _injector
Injector__enter__ ==
    /\ nopen < MaxOpen
    /\ nopen' = nopen + 1
    /\ enabled' = TRUE
    /\ op' = "__enter__"
    /\ arg' = <<>>
    /\ NoHookRan

\* The gate counted: it closes when the outermost context is left
Injector__exit__Counted ==
    /\ nopen > 0
    /\ nopen' = nopen - 1
    /\ enabled' = (nopen > 1)
    /\ op' = "__exit__"
    /\ arg' = <<>>
    /\ NoHookRan

\* The innermost open block ends: Injector.__exit__ disables the gate
Injector__exit__ ==
    /\ nopen > 0
    /\ nopen' = nopen - 1
    /\ enabled' = FALSE
    /\ op' = "__exit__"
    /\ arg' = <<>>
    /\ NoHookRan

NextNested ==
    \/ \E f \in Filenames, l \in LineNos, a \in Actions : add(f, l, a)
    \/ Injector__enter__
    \/ Injector__exit__
    \/ \E f \in Filenames, l \in LineNos, fr \in Frames : hook(f, l, fr)

SpecNested == Init /\ [][NextNested]_vars

----------------------------------------------------------------------------
(* Claims about the injection engine, checked under Spec *)

\* Leading whitespace of a line, as the longest prefix of whitespace characters
LeadingWS(line) ==
    LET k == CHOOSE k \in 0..Len(line) :
                 /\ \A i \in 1..k : line[i] \in Whitespace
                 /\ k < Len(line) => line[k + 1] \notin Whitespace
    IN  SubSeq(line, 1, k)

HookCount(s) == Cardinality({i \in 1..Len(s) : s[i] = HookCall})

IsSuffix(s, t) ==
    Len(s) <= Len(t) /\ SubSeq(t, Len(t) - Len(s) + 1, Len(t)) = s

IsPrefix(s, t) == Len(s) <= Len(t) /\ SubSeq(t, 1, Len(s)) = s

\* At least one action is registered at (f, n)
Registered(f, n) == Get2(actions, f, n) # <<>>

\* What the contract of the rewriter says of the text produced for one line
C1_LineOK(seg, f, n, line) ==
    IF Registered(f, n)
    THEN /\ HookCount(seg) = 1
         /\ IsPrefix(LeadingWS(line) \o HookStmt(f, n), seg)
         /\ IsSuffix(LStrip(line), seg)
         /\ <<f, n>> \notin commented =>
                seg = LeadingWS(line) \o HookStmt(f, n) \o line
    ELSE <<f, n>> \notin commented => seg = line

\* The text splits into one piece per line of the source, each as contracted
RECURSIVE C1_Matches(_, _, _, _)
C1_Matches(out, f, n, lines) ==
    IF lines = <<>> THEN out = <<>>
    ELSE \E k \in 0..Len(out) :
            /\ C1_LineOK(SubSeq(out, 1, k), f, n, Head(lines))
            /\ C1_Matches(SubSeq(out, k + 1, Len(out)), f, n + 1, Tail(lines))

\* C1: the text inject_hooks returns carries, for every line with at least
\* one registered action, exactly one hook invocation, placed before the
\* original statement and starting at the line's leading whitespace; every
\* line that has no registered action and is not commented is byte-identical
\* to the input line.
C1_RewriteContract ==
    op = "inject_hooks" => C1_Matches(modified_file, arg[1], 1, source)

\* Whether an action raises when applied to a frame, and what it raises:
\* a name bound neither in the locals nor the globals is a KeyError, and a
\* called function may raise its own exception.
ExceptionOf(a, fr) ==
    IF \E i \in 1..Len(a.names) :
           a.names[i] \notin DOMAIN fr.f_globals \cup DOMAIN fr.f_locals
    THEN "KeyError"
    ELSE IF a.kind = "Call" /\ a.func = "raise" THEN "E"
    ELSE "none"

\* Index of the first action of acts that raises on fr, 0 when none does
FirstRaise(acts, fr) ==
    LET R == {i \in 1..Len(acts) : ExceptionOf(acts[i], fr) # "none"}
    IN  IF R = {} THEN 0 ELSE CHOOSE i \in R : \A j \in R : i <= j

\* C2 (as stated): with the gate enabled, hook fires exactly the sequence of
\* actions registered at the location, in registration order and once per
\* registration.
C2_FiresExactlyRegistered ==
    (op = "hook" /\ enabled) => fired = Get2(actions, arg[1], arg[2])

\* C2 (amended): with the gate enabled, hook fires the actions registered at
\* the location in registration order, once per registration, up to and
\* including the first action that raises; all of them when none raises.
C2_FiresRegisteredUntilRaise ==
    (op = "hook" /\ enabled) =>
        LET acts == Get2(actions, arg[1], arg[2])
            r == FirstRaise(acts, arg[3])
        IN  fired = IF r = 0 THEN acts ELSE SubSeq(acts, 1, r)

\* The same action registered twice at one location has fired twice
C2_Witness ==
    /\ op = "hook" /\ enabled
    /\ Len(fired) = 2 /\ fired[1] = fired[2]
    /\ fired = Get2(actions, arg[1], arg[2])

\* C3: while the gate is disabled, hook invokes no action and changes neither
\* the action table, the commented set nor the frame, for every location.
C3_DisabledHookIsNoop ==
    [][(op' = "hook" /\ ~enabled) =>
          /\ fired' = <<>>
          /\ stdout' = <<>>
          /\ raised' = "none"
          /\ actions' = actions
          /\ commented' = commented
          /\ frame' = arg'[3]]_vars

\* hook was called with the gate disabled at a location that has actions
C3_Witness ==
    /\ op = "hook" /\ ~enabled
    /\ Registered(arg[1], arg[2])
    /\ fired = <<>>

\* C10: an exception raised by an action during dispatch leaves hook
\* unmodified: hook raises exactly what the first raising action raised.
C10_ExceptionPropagates ==
    (op = "hook" /\ enabled) =>
        LET acts == Get2(actions, arg[1], arg[2])
            r == FirstRaise(acts, arg[3])
        IN  raised = IF r = 0 THEN "none" ELSE ExceptionOf(acts[r], arg[3])

\* An action raised during dispatch, after another action had fired
C10_Witness ==
    /\ op = "hook" /\ enabled
    /\ raised = "E"
    /\ Len(fired) = 2

\* C11: applying Print, Log or Call actions leaves the bindings of the
\* execution context, module-level and local, as they were when hook was
\* called.
C11_ContextUnchanged ==
    (op = "hook" /\ fired # <<>>
        /\ \A i \in 1..Len(fired) : fired[i].kind \in {"Print", "Log", "Call"})
    => frame = arg[3]

\* os.path.normpath of a spelling
Normalize(f) == IF f = "./t.py" THEN "t.py" ELSE f

\* The text holds a hook statement for line n
HasHookFor(out, n) ==
    \E i \in 1..Len(out) :
        out[i] = HookCall /\ i + 5 <= Len(out) /\ out[i + 5] = ToString(n)

\* C12: a location is the normalized path and the line: actions registered
\* under one spelling of the file's path are hooked by inject_hooks and
\* fired by hook when the file is named by another spelling.
C12_SpellingIndependent ==
    \A g \in Spellings :
        /\ (op = "inject_hooks" /\ Normalize(g) = Normalize(arg[1])) =>
               \A n \in 1..Len(source) :
                   Registered(g, n) => HasHookFor(modified_file, n)
        /\ (op = "hook" /\ enabled /\ raised = "none"
               /\ Normalize(g) = Normalize(arg[1])) =>
               \A i \in 1..Len(Get2(actions, g, arg[2])) :
                   \E k \in 1..Len(fired) :
                       fired[k] = Get2(actions, g, arg[2])[i]

\* The text cut into lines: each ends with its newline, except possibly the
\* last
RECURSIVE SplitLines(_)
SplitLines(out) ==
    IF out = <<>> THEN <<>>
    ELSE LET N == {i \in 1..Len(out) : out[i] = "\n"}
         IN  IF N = {} THEN <<out>>
             ELSE LET k == CHOOSE i \in N : \A j \in N : i <= j
                  IN  <<SubSeq(out, 1, k)>>
                      \o SplitLines(SubSeq(out, k + 1, Len(out)))

\* The indentation of a line: its leading blanks and tabs
Indentation(line) ==
    LET k == CHOOSE k \in 0..Len(line) :
                 /\ \A i \in 1..k : line[i] \in {" ", "\t"}
                 /\ k < Len(line) => line[k + 1] \notin {" ", "\t"}
    IN  SubSeq(line, 1, k)

\* A line commented out: indentation, comment prefix, the rest of the line
CommentedLine(line) ==
    Indentation(line) \o <<"#", " ">>
        \o SubSeq(line, Len(Indentation(line)) + 1, Len(line))

\* A hook is inserted at a line that holds nothing but whitespace
HookOnBlankLine(f) ==
    \E n \in 1..Len(source) :
        Has2(actions, f, n) /\ LStrip(source[n]) = <<>>

\* C13: a commented location keeps its line: the text has as many lines as
\* the source, and the line of a commented location is the original
\* indentation, a comment prefix and the original text of the line, with the
\* hook before the comment when the location has actions. (Stated for the
\* files in which no blank line is hooked.)
C13_CommentKeepsLine ==
    (op = "inject_hooks" /\ ~HookOnBlankLine(arg[1])) =>
        LET out == SplitLines(modified_file)
        IN  /\ Len(out) = Len(source)
            /\ \A n \in 1..Len(source) :
                   <<arg[1], n>> \in commented =>
                       LET body == CommentedLine(source[n])
                           hooked == Indentation(source[n])
                                         \o HookStmt(arg[1], n) \o body
                       IN  IF Registered(arg[1], n) THEN out[n] = hooked
                           ELSE out[n] \in {body, hooked}

\* The registry without the locations that are not lines of the file
InRangeActions(row) ==
    [l \in DOMAIN row \cap (1..Len(source)) |-> row[l]]

InRangeCommented == {c \in commented : c[2] \in 1..Len(source)}

\* C14: locations past the end of the file or below line 1 are ignored by
\* inject_hooks: it raises nothing and returns what it returns for the
\* registry without them.
C14_OutOfRangeIgnored ==
    op = "inject_hooks" =>
        /\ raised = "none"
        /\ modified_file =
               InjectFrom(InRangeActions(actions[arg[1]]), InRangeCommented,
                          arg[1], 1, source)

\* inject_hooks has run with actions registered past the end of the file and
\* a comment mark below line 1
C14_Witness ==
    /\ op = "inject_hooks"
    /\ Registered(arg[1], Len(source) + 1)
    /\ Registered(arg[1], 1)
    /\ <<arg[1], 0>> \in commented
    /\ modified_file # <<>>

\* Number of actions of the given kind among the first k of acts
CountKind(acts, k, kind) ==
    Cardinality({i \in 1..k : acts[i].kind = kind})

\* C15: a Print or Log action whose template names a variable bound neither
\* in the locals nor in the module-level bindings raises; the error leaves
\* hook, and the action writes no line and emits no log message.
C15_UnboundNameRaises ==
    op = "hook" =>
        \A i \in 1..Len(fired) :
            (fired[i].kind \in {"Print", "Log"}
                /\ ExceptionOf(fired[i], arg[3]) = "KeyError") =>
                    /\ raised = "KeyError"
                    /\ i = Len(fired)
                    /\ Len(stdout) = CountKind(fired, i - 1, "Print")
                    /\ Len(logged) = CountKind(fired, i - 1, "Log")

\* A log action raised on an unbound name after a print action had written
\* its line
C15_Witness ==
    /\ op = "hook" /\ enabled
    /\ raised = "KeyError"
    /\ Len(fired) = 2
    /\ fired[1] = PrintX /\ fired[2] = LogY
    /\ Len(stdout) = 1 /\ logged = <<>>

\* C18: a flip of the gate takes effect at the next hook call: when an
\* action disables the gate during a dispatch, the actions registered after
\* it at the location still fire, and a hook called while the gate is
\* disabled fires nothing.
C18_GateAtNextHook ==
    [][op' = "hook" =>
          LET acts == Get2(actions, arg'[1], arg'[2])
          IN  IF enabled
              THEN /\ fired' = acts
                   /\ enabled' = ~(\E i \in 1..Len(acts) : acts[i] = CallDisable)
              ELSE /\ fired' = <<>>
                   /\ enabled' = FALSE]_vars

\* An action disabled the gate and the action registered after it at the
\* same location has fired all the same
C18_Witness ==
    /\ op = "hook"
    /\ ~enabled
    /\ fired = <<CallDisable, PrintX>>
    /\ Len(stdout) = 1

----------------------------------------------------------------------------
(* Claims about the scope resolver, checked under SpecSearch *)

\* The simple paths of attribute lookups from node to goal, through modules,
\* classes and functions
RECURSIVE PathsFrom(_, _, _, _)
PathsFrom(h, node, goal, visited) ==
    IF node = goal THEN {<<node>>}
    ELSE LET kids == {GetAttr(h, node, n) :
                        n \in {n \in {"__wrapped__", "a", "f"} :
                                  HasAttr(h, node, n)}}
             next == {k \in kids : h[k].kind \in SearchedKinds
                                   /\ k \notin visited \cup {node}}
         IN  UNION {{<<node>> \o p :
                        p \in PathsFrom(h, k, goal, visited \cup {node})} :
                    k \in next}

IsAttrOf(h, child, o) ==
    \E n \in {"__wrapped__", "a", "f"} :
        HasAttr(h, o, n) /\ GetAttr(h, o, n) = child

WellFormedPath(h, p, module, func) ==
    /\ Len(p) >= 2
    /\ p[1] = module
    /\ p[Len(p)] = func
    /\ \A i \in 1..(Len(p) - 1) : IsAttrOf(h, p[i + 1], p[i])
    /\ \A i, j \in 1..Len(p) : i # j => p[i] # p[j]

\* C6: the resolver returns the module as the parent of a function defined
\* at module scope and the class as the parent of a function defined inside
\* a class, whatever else the graph holds.
C6_ParentIsDefiner ==
    (op = "get_parent_scope" /\ heap[arg[1]].definer # "none") =>
        (raised = "none" /\ parent = heap[arg[1]].definer)

\* C7: _search with cap L runs the passes with bound 1..L, so a function
\* whose only path from the module has depth exactly L is found.
C7_CapInclusive ==
    op = "search" =>
        \A p \in PathsFrom(heap, arg[2], arg[1], {}) :
            (PathsFrom(heap, arg[2], arg[1], {}) = {p}
             /\ Len(p) - 1 = arg[3]) => path = p

\* C8: a path the search returns starts at the module, ends at the function,
\* has each element an attribute of its predecessor and holds no object
\* twice; the resolver returns the second-to-last element of its path.
C8_PathWellFormed ==
    /\ (op = "search" /\ path # <<>>) =>
           WellFormedPath(heap, path, arg[2], arg[1])
    /\ (op = "get_parent_scope" /\ raised = "none") =>
           /\ WellFormedPath(heap, path, arg[2], arg[1])
           /\ parent = path[Len(path) - 1]

\* The resolver returned the parent of a function three lookups deep, after
\* passes that backed out of other branches
C8_Witness ==
    /\ op = "get_parent_scope" /\ raised = "none"
    /\ Len(path) = 4
    /\ Cardinality(DOMAIN heap["M"].attrs) = 2

\* C20: for a function with a dotted qualified name the resolver walks the
\* module along the name and checks that the walk ends at the function; when
\* a lookup fails or the walk ends at another object it falls through to
\* the bounded search: it neither raises for the failed lookup nor returns
\* the container of another object.
C20_FastPathVerified ==
    op = "get_parent_scope_qualname" =>
        LET w == QualnameWalk(heap, <<arg[2]>>, arg[3])
            r == GetParentScope(heap, arg[1], arg[2])
        IN  IF w.raised = "none" /\ w.path[Len(w.path)] = arg[1]
            THEN raised = "none" /\ parent = w.path[Len(w.path) - 1]
            ELSE raised = r.raised /\ parent = r.parent

----------------------------------------------------------------------------
(* Claims about the patcher, checked under SpecTap *)

\* The object's own attribute, "absent" when it has none of that name
OwnAttr(h, o, n) == IF n \in DOMAIN h[o].attrs THEN h[o].attrs[n] ELSE "absent"

\* The attributes of the objects of h that h2 binds differently
Rebound(h, h2) ==
    {on \in (DOMAIN h) \X {"__wrapped__", "a", "f"} :
        OwnAttr(h, on[1], on[2]) # OwnAttr(h2, on[1], on[2])}

\* C4: after tap(f, wrapper) on a function bound as module.f, module.f is
\* the wrapped callable, so a call through module.f runs the wrapper's
\* behaviour; a reference taken from module.f before the patch still runs
\* the original function alone.
C4_ModuleCallIsWrapped ==
    /\ [][(/\ op' = "tap" /\ raised' = "none"
           /\ OwnAttr(heap, "M", heap[arg'[1]].name) = arg'[1])
          => LET f == arg'[1]
                 w == OwnAttr(heap', "M", heap[f].name)
             IN  /\ w \notin DOMAIN heap \cup {"absent"}
                 /\ heap'[w].wraps = f
                 /\ heap'[w].wkind = arg'[2]
                 /\ Head(CallTrace(heap', w)) = w
                 /\ (arg'[2] = "skip") = (CallTrace(heap', w) = <<w>>)
                 /\ CallTrace(heap', f) = CallTrace(heap, f)]_vars
    /\ [](op = "call_alias" => trace = CallTrace(heap, alias))
    /\ []((op = "call_alias" /\ alias = "F") => trace = <<"F">>)
    /\ []((op = "call_module_f" /\ ntaps > 0 /\ alias = "F"
           /\ OwnAttr(heap, "M", "f") \in DOMAIN heap
           /\ heap[OwnAttr(heap, "M", "f")].wraps = "F")
          => (Head(trace) # "F" /\ Head(trace) = OwnAttr(heap, "M", "f")))

\* After a patch of module.f, a call through module.f ran the wrapper and
\* then the original
C4_Witness ==
    /\ op = "call_module_f"
    /\ alias = "F"
    /\ Len(trace) = 2 /\ trace[2] = "F"
    /\ heap[trace[1]].wraps = "F"

\* C5: a successful tap rebinds exactly one attribute, the one named
\* func.__name__, of exactly one object, the container the resolver returned;
\* every other attribute of every object is unchanged and the original
\* function object is not mutated.
C5_OneAttributeRebound ==
    [][(op' = "tap" /\ raised' = "none")
       => LET f == arg'[1]
              r == GetParentScope(heap, f, SysModules[heap[f].module])
          IN  /\ Rebound(heap, heap') = {<<r.parent, heap[f].name>>}
              /\ r.parent # f
              /\ heap'[f] = heap[f]
              /\ \A o \in DOMAIN heap :
                    heap'[o] = [heap[o] EXCEPT !.attrs = heap'[o].attrs]]_vars

\* tap has patched a class that holds another attribute besides the function
C5_Witness ==
    /\ op = "tap" /\ raised = "none"
    /\ DOMAIN heap["X"].attrs = {"a", "f"}
    /\ heap["X"].attrs["f"] = "W1"
    /\ heap["X"].attrs["a"] # "W1"
    /\ OwnAttr(heap, "M", "f") # "W1"

\* C19: the container the resolver returns to tap, whose attribute tap
\* rebinds, is a module or a class, never a function, also when the target
\* is reached only through a wrapper function made by an earlier tap.
C19_ParentIsContainer ==
    [][(op' = "tap" /\ raised' = "none")
       => LET f == arg'[1]
              r == GetParentScope(heap, f, SysModules[heap[f].module])
          IN  /\ heap[r.parent].kind \in {"module", "class"}
              /\ \A on \in Rebound(heap, heap') :
                     heap[on[1]].kind \in {"module", "class"}]_vars

----------------------------------------------------------------------------
(* Claims about the search run statement by statement, under SpecSteps *)

\* The search has returned what _search returns
StepsAgree ==
    pc = "done" => result = Search(heap, "F", "M", cap)

\* C9: on every finite graph, cyclic ones included, the search terminates:
\* it returns a path to the function or reports that there is none.
C9_SearchTerminates ==
    <>(pc = "done" /\ (result = <<>> \/ result[Len(result)] = "F"))

\* The search is over on a graph in which the module and a class refer to
\* themselves or each other, without having found the function
C9_Witness ==
    /\ pc = "done"
    /\ result = <<>>
    /\ cap > 2
    /\ IsAttrOf(heap, "M", "M")
    /\ IsAttrOf(heap, "Y", "X") /\ IsAttrOf(heap, "X", "Y")

----------------------------------------------------------------------------
(* Claims about a run of _run, checked under SpecRun *)

\* The statements that have run before event i
StmtsBefore(i) == {j \in 1..(i - 1) : events[j].type = "stmt"}

\* The bindings the statements before event i have left
BindingsBefore(i) ==
    IF StmtsBefore(i) = {} THEN NoVars
    ELSE LET last == CHOOSE j \in StmtsBefore(i) :
                         \A k \in StmtsBefore(i) : k <= j
         IN  ("x" :> events[last].line)

\* C16: in the run of a rewritten script with the gate enabled, the actions
\* registered at line n fire after the statements of the lines before n
\* have taken effect and before the statement of line n runs.
C16_ActionsBeforeStatement ==
    \A i \in 1..Len(events) :
        /\ events[i].type = "stmt" =>
               LET n == events[i].line
                   acts == Get2(actions, RunFile, n)
               IN  /\ i > Len(acts)
                   /\ \A k \in 1..Len(acts) :
                          LET e == events[i - Len(acts) + k - 1]
                          IN  /\ e.type = "action"
                              /\ e.line = n
                              /\ e.action = acts[k]
        /\ events[i].type = "action" =>
               /\ \A j \in 1..Len(events) :
                      events[j].type = "stmt" =>
                          (j < i <=> events[j].line < events[i].line)
               /\ events[i].seen = BindingsBefore(i)

\* An action registered at line 2 has fired on the bindings line 1 left, and
\* the statement of line 2 has run right after it
C16_Witness ==
    \E i \in 1..(Len(events) - 1) :
        /\ events[i].type = "action" /\ events[i].line = 2
        /\ events[i].seen = ("x" :> 1)
        /\ events[i + 1].type = "stmt" /\ events[i + 1].line = 2

\* What the last event of a finished run raised
RaisedBy(e) ==
    IF e.type = "raise"
    THEN IF \E i \in 1..Len(events) : events[i].type = "rewrite" THEN "E"
         ELSE "ConfigError"
    ELSE IF e.type = "action"
    THEN ExceptionOf(e.action, [f_globals |-> e.seen, f_locals |-> e.seen])
    ELSE "none"

\* C17: in a run the config script is executed to its end before the target
\* is rewritten, and the target is rewritten before it is executed; the
\* gate is enabled from the start of the config script to the end of the
\* target, and disabled once the run has ended, normally or by an
\* exception of the config script or the target, which leaves _run.
C17_RunBrackets ==
    /\ rpc \in {"config", "target"} => enabled
    /\ rpc = "done" =>
           /\ ~enabled
           /\ raised = RaisedBy(events[Len(events)])
    /\ \A i, j \in 1..Len(events) :
           i < j =>
               /\ events[j].type = "config" => events[i].type = "config"
               /\ events[j].type = "rewrite" =>
                      events[i].type = "config"
               /\ events[i].type = "raise" => FALSE

\* A run has ended by an exception of the target after registrations of the
\* config script had fired
C17_Witness ==
    /\ rpc = "done"
    /\ raised = "E"
    /\ ~enabled
    /\ events[1].type = "config"
    /\ events[Len(events)].type = "raise"
    /\ \E i \in 1..Len(events) : events[i].type = "action"

----------------------------------------------------------------------------
(* Claims about the wrappers, checked under SpecCalls *)

\* The last call went through the wrapper of the given kind
CalledThrough(kind) == wrapper.kind = kind /\ outcome.type # "none"

\* The events of the last call that ran the given callee
EventsOf(type) == SelectSeq(ctrace, LAMBDA ev : ev.type = type)

\* C21: a call of a function wrapped with skip returns the configured
\* returnValue (None by default) whatever the arguments are, and the wrapped
\* function is not called, so none of its side effects occurs.
C21_SkipNeverRuns ==
    CalledThrough("skip") =>
        /\ outcome = Returns(wrapper.returnValue)
        /\ EventsOf("func") = <<>>

\* a skipped call, with arguments, of the function that would have raised
C21_Witness ==
    /\ CalledThrough("skip")
    /\ wrapper.func = "raiseException"
    /\ call.args = <<"ValueError">>
    /\ outcome = Returns(None)

\* What the wrapped function itself gives for the arguments of the last call
FuncOutcome == CallFunc(wrapper.func, call.args, call.kwargs)

\* The wrapped function raised an exception of the wrapper's exception set
RaisedInSet ==
    /\ FuncOutcome.type = "raise"
    /\ Catches(wrapper.exceptionList, FuncOutcome.value)

\* C22: when a function wrapped with callOnException raises an exception of
\* the exception set, the callback is called exactly once, with the exception
\* value, and the exception reaches the caller if and only if the callback
\* returned a falsy value (None included); otherwise the call returns.
C22_CallbackDecides ==
    \A kind \in {"callOnException", "sleuth.callOnException"} :
        (CalledThrough(kind) /\ RaisedInSet) =>
            /\ Len(EventsOf("callback")) = 1
            /\ EventsOf("callback")[1].args = <<FuncOutcome.value>>
            /\ outcome = FuncOutcome <=> ~Truthy(wrapper.callback)
            /\ Truthy(wrapper.callback) => outcome.type = "return"

\* C23: a function wrapped with logOnException: an exception of the set is
\* logged exactly once and raised again if and only if suppress is false; any
\* other exception reaches the caller with nothing logged; a normal return
\* logs nothing and gives the function's result.
C23_LogOnException ==
    CalledThrough("logOnException") =>
        IF RaisedInSet
        THEN /\ EventsOf("log") = <<Logged(FuncOutcome.value)>>
             /\ outcome = FuncOutcome <=> ~wrapper.suppress
             /\ wrapper.suppress => outcome.type = "return"
        ELSE /\ EventsOf("log") = <<>>
             /\ outcome = FuncOutcome

\* a suppressed exception of the set, next to classes outside it
C23_Witness ==
    /\ CalledThrough("logOnException")
    /\ wrapper.exceptionList = {"ValueError"}
    /\ wrapper.suppress
    /\ FuncOutcome = Raises("ValueError")
    /\ outcome.type = "return"

\* C24: a function wrapped with breakOnException: an exception of the set
\* enters the debugger once and does not reach the caller, the call returns;
\* any other exception reaches the caller without the debugger; a normal
\* return never enters the debugger.
C24_BreakOnException ==
    CalledThrough("breakOnException") =>
        IF RaisedInSet
        THEN /\ EventsOf("debug") = <<DebuggerEntered>>
             /\ outcome.type = "return"
        ELSE /\ EventsOf("debug") = <<>>
             /\ outcome = FuncOutcome

\* an exception of the set that ended in the debugger
C24_Witness ==
    /\ CalledThrough("breakOnException")
    /\ wrapper.exceptionList = {"ValueError", "KeyError"}
    /\ FuncOutcome = Raises("KeyError")
    /\ outcome = Returns(None)
    /\ EventsOf("debug") # <<>>

\* C26: each call of a function wrapped with callOnEnter calls the callback
\* exactly once, before the wrapped function, with the positional and keyword
\* arguments of the call, and gives the wrapped function's own result.
C26_CallbackThenFunc ==
    \A kind \in {"callOnEnter", "sleuth.callOnEnter"} :
        CalledThrough(kind) =>
            /\ Len(ctrace) = 2
            /\ ctrace[1] = CallbackCalled(call.args, call.kwargs)
            /\ ctrace[2] = FuncCalled(wrapper.func, call.args, call.kwargs)
            /\ outcome = FuncOutcome

\* The entry messages of the wrapped instance i, in the order logged
EntriesOf(i) ==
    SelectSeq(clog, LAMBDA m : m.inst = i /\ m.text = "Calling")

\* C25: every instance wrapped with logCalls counts its own calls from 0: its
\* entry messages are numbered 0, 1, 2, ... in order, the counter is the
\* number of its entries (calls of another instance leave it alone), and an
\* exit message has the number of the entry message of the same call, also
\* when calls nest.
C25_OwnCounter ==
    /\ \A i \in DOMAIN nCalls :
          /\ Len(EntriesOf(i)) = nCalls[i]
          /\ \A k \in 1..nCalls[i] : EntriesOf(i)[k].callNumber = k - 1
    /\ \A k \in 1..Len(clog) :
          clog[k].text = "Exiting" =>
              /\ clog[clog[k].entry].text = "Calling"
              /\ clog[clog[k].entry].inst = clog[k].inst
              /\ clog[clog[k].entry].callNumber = clog[k].callNumber

\* w1 called, calling w2 and itself from its body; the inner call of w1 has
\* returned and then the outer one
C25_Witness ==
    /\ Len(clog) >= 5
    /\ clog[1] = [inst |-> "w1", text |-> "Calling", callNumber |-> 0,
                   entry |-> 1]
    /\ clog[2].inst = "w2"
    /\ \E k \in 3..Len(clog) : \E l \in (k + 1)..Len(clog) :
          /\ clog[k] = [inst |-> "w1", text |-> "Exiting", callNumber |-> 1,
                        entry |-> clog[k].entry]
          /\ clog[l] = [inst |-> "w1", text |-> "Exiting", callNumber |-> 0,
                        entry |-> 1]

----------------------------------------------------------------------------
(* More claims about the scope resolver, checked under SpecSearch *)

\* C27: when a chain of attribute lookups through modules, classes and
\* functions leads from the module to the function and is no longer than the
\* largest depth limit the search tries (the cap less one), the search returns
\* a path: the set of visited objects of a pass never hides the function.
C27_ReachableIsFound ==
    op = "search" =>
        ((\E p \in PathsFrom(heap, arg[2], arg[1], {}) :
              Len(p) - 1 <= arg[3] - 1)
         => path # <<>>)

----------------------------------------------------------------------------
(* More claims about the patcher, checked under SpecTapFail *)

\* tap(func, ...) cannot succeed on the objects h: the module of func is not
\* loaded, or the search finds no path to func
TapMustFail(h, func) ==
    \/ h[func].module \notin DOMAIN SysModules
    \/ Search(h, func, SysModules[h[func].module], ScopeLimit) = <<>>

\* C28: a tap that fails, the function's module not being loaded or the
\* search finding no path, raises the not-found error and rebinds nothing:
\* every object has the attributes it had before the call.
C28_FailedTapChangesNothing ==
    [][ntaps' # ntaps =>
          /\ TapMustFail(heap, arg'[1]) => raised' = "SleuthNotFoundError"
          /\ raised' # "none" => heap' = heap]_vars

\* a failed tap of a function of a loaded module, in a module with attributes
C28_Witness ==
    /\ op = "tap"
    /\ raised = "SleuthNotFoundError"
    /\ heap[arg[1]].module = "m"
    /\ heap["M"].attrs # NoAttrs

----------------------------------------------------------------------------
(* More claims about the injection engine, checked under Spec *)

\* C29: whatever registrations, gate flips, hook calls and rewrites came
\* before, inject_hooks puts a hook on line n of the file exactly when an
\* action is registered at (file, n): a hook call for a location without
\* actions does not make a later rewrite put a hook there.
C29_HookIffRegistered ==
    op = "inject_hooks" =>
        \A n \in 1..Len(source) :
            HasHookFor(modified_file, n) <=> Registered(arg[1], n)

----------------------------------------------------------------------------
(* Claims about nested Injector contexts, checked under SpecNested *)

\* C30: the gate is one boolean for all Injector contexts and not a count of
\* them: leaving any context disables it, also while an outer context is still
\* open, and a hook reached after that inside the outer context fires no
\* action.
C30_GateIsOneBoolean ==
    [][/\ nopen' < nopen => ~enabled'
       /\ (op' = "hook" /\ nopen > 0 /\ ~enabled) =>
              (fired' = <<>> /\ stdout' = <<>> /\ raised' = "none")]_vars

\* inside the outer context, after the inner one was left, a hook with
\* registered actions has fired none
C30_Witness ==
    /\ op = "hook"
    /\ nopen = 1
    /\ ~enabled
    /\ Registered(arg[1], arg[2])
    /\ fired = <<>>

====
